---- MODULE Spec2Model ----
(***************************************************************************)
(* Portfolio engine: content scoring (services/scoring.ts), section        *)
(* assignment, block type selection, block building and portfolio          *)
(* assembly (services/composition.ts).                                     *)
(*                                                                         *)
(* Numbers: every score and weight is kept in hundredths (0.35 is 35), so  *)
(* a weighted sum is in ten-thousandths.  Times are whole days.            *)
(* Strings copied verbatim from a content record into a block (title,      *)
(* description, urls) are represented by the record's content_id.          *)
(***************************************************************************)
EXTENDS Integers, Sequences, FiniteSets, TLC

VARIABLES
    category,      \* options.category of the request
    contents,      \* the normalized content list handed to scoreContentBatch
    maxCalls,      \* how many times each operation may be invoked in this run
    scoreCalls,    \* invocations of scoreContentBatch so far
    composeCalls,  \* invocations of composePortfolio so far
    scored,        \* result of the latest scoreContentBatch
    prevScored,    \* result of the invocation before that one
    firstPass,     \* assignments after the first loop of assignContentToSections
    assignments,   \* assignments returned by assignContentToSections
    composedFrom,  \* the scored list the latest composePortfolio was given
    portfolio,     \* document returned by the latest composePortfolio
    prevComposedFrom, \* argument and result of the invocation before that one
    prevPortfolio,
    scoredAt,      \* the clock reading of the latest single scoreContent request
    idSpace,       \* the values generateId can return in this run
    built,         \* block returned by the latest direct buildBlock call
    inputs,        \* the raw inputs handed to ingestBatch
    ingested,      \* record returned by ingestBatch
    ytClock,       \* Date.now() of the YouTube handler, in hours
    ytCache,       \* the handler's cache: video id -> entry
    ytCalls,       \* the extractYouTubeMetadata calls made so far, in order of start
    ytEvents       \* how many calls have started or completed so far

vars == <<category, contents, maxCalls, scoreCalls, composeCalls, scored, prevScored,
          firstPass, assignments, composedFrom, portfolio, prevComposedFrom, prevPortfolio,
          scoredAt, idSpace, built, inputs, ingested, ytClock, ytCache, ytCalls, ytEvents>>

ingestVars == <<inputs, ingested>>
youtubeVars == <<ytClock, ytCache, ytCalls, ytEvents>>
requestVars == <<category, contents, maxCalls, scoreCalls, composeCalls, scored, prevScored,
                 firstPass, assignments, composedFrom, portfolio, prevComposedFrom,
                 prevPortfolio, scoredAt, idSpace, built>>

(***************************************************************************)
(* Bounds of the model                                                     *)
(***************************************************************************)
MaxItems == 2      \* longest list a request composes from the full catalogue
MaxBatch == 3      \* longest list scored from the full catalogue
MaxLong == 6       \* longest list drawn from the document catalogue
MaxClock == 1      \* the clock reads 0 .. MaxClock (days)
MaxUuid == 2       \* generateId draws from 1 .. MaxUuid
MaxFill == 14      \* longest list of the specification that overfills every section
MaxInputs == 3     \* longest list of raw inputs handed to ingestBatch
MaxYtCalls == 3    \* extractYouTubeMetadata calls in one run
MaxHour == 25      \* the YouTube handler's clock reads 0 .. MaxHour (hours)

Times == 0 .. MaxClock
UuidSpace == 1 .. MaxUuid

Min(a, b) == IF a < b THEN a ELSE b
Max(a, b) == IF a > b THEN a ELSE b

\* a field of extracted_data that is not there (JavaScript undefined)
Undefined == 0 - 1
\* JavaScript truthiness of an optional count
Truthy(x) == x # Undefined /\ x # 0

(***************************************************************************)
(* types/content.ts, types/portfolio.ts                                    *)
(***************************************************************************)
Category == {"Finance", "Entertainment", "Design", "Legal",
             "Tech", "Marketing", "Influencers", "Business"}
ContentType == {"video", "image", "pdf", "text", "code", "external_link"}
ContentSource == {"youtube", "github", "upload", "input", "instagram", "linkedin",
                  "tiktok", "twitter", "behance", "dribbble", "website", "other"}
SectionId == {"hook", "credibility", "work", "process", "action"}
BlockType == {"media", "expandable_text", "metric", "comparison", "gallery",
              "timeline", "external_link", "scroll_container", "hotspot_media", "cta"}

(***************************************************************************)
(* services/scoring.ts                                                     *)
(***************************************************************************)
\* CATEGORY_WEIGHTS with the Tech vector of a table that was not normalised
CATEGORY_WEIGHTS_TechNotNormalised ==
    [c \in Category |->
       IF c = "Tech"
       THEN [relevance |-> 30, quality |-> 25, credibility |-> 20, engagement |-> 20, freshness |-> 10]
       ELSE [relevance |-> 20, quality |-> 20, credibility |-> 20, engagement |-> 20, freshness |-> 20]]

CATEGORY_WEIGHTS ==
    [c \in Category |->
       CASE c = "Finance" ->
              [relevance |-> 25, quality |-> 20, credibility |-> 35, engagement |-> 10, freshness |-> 10]
         [] c = "Entertainment" ->
              [relevance |-> 20, quality |-> 30, credibility |-> 10, engagement |-> 30, freshness |-> 10]
         [] c = "Design" ->
              [relevance |-> 25, quality |-> 35, credibility |-> 10, engagement |-> 20, freshness |-> 10]
         [] c = "Legal" ->
              [relevance |-> 20, quality |-> 15, credibility |-> 40, engagement |-> 5, freshness |-> 20]
         [] c = "Tech" ->
              [relevance |-> 30, quality |-> 25, credibility |-> 20, engagement |-> 15, freshness |-> 10]
         [] c = "Marketing" ->
              [relevance |-> 25, quality |-> 20, credibility |-> 15, engagement |-> 30, freshness |-> 10]
         [] c = "Influencers" ->
              [relevance |-> 15, quality |-> 25, credibility |-> 10, engagement |-> 40, freshness |-> 10]
         [] c = "Business" ->
              [relevance |-> 25, quality |-> 15, credibility |-> 35, engagement |-> 10, freshness |-> 15]]

CATEGORY_KEYWORDS ==
    [c \in Category |->
       CASE c = "Finance" ->
              {"finance", "financial", "investment", "banking", "accounting", "cfo",
               "revenue", "profit", "roi", "portfolio", "audit", "tax", "budget",
               "forecast", "valuation", "equity", "debt", "capital", "cash flow"}
         [] c = "Entertainment" ->
              {"entertainment", "film", "music", "video", "content", "creative",
               "production", "acting", "directing", "streaming", "media", "show",
               "performance", "artist", "celebrity", "viral", "views"}
         [] c = "Design" ->
              {"design", "ui", "ux", "graphic", "visual", "brand", "logo", "creative",
               "interface", "prototype", "figma", "sketch", "adobe", "illustration",
               "typography", "color", "layout", "wireframe", "aesthetic"}
         [] c = "Legal" ->
              {"legal", "law", "attorney", "lawyer", "litigation", "contract",
               "compliance", "regulation", "court", "case", "settlement", "rights",
               "intellectual property", "patent", "trademark", "counsel"}
         [] c = "Tech" ->
              {"tech", "technology", "software", "engineering", "developer", "code",
               "programming", "api", "cloud", "data", "ai", "machine learning",
               "startup", "product", "architecture", "system", "scale", "devops"}
         [] c = "Marketing" ->
              {"marketing", "growth", "seo", "sem", "social", "campaign", "brand",
               "conversion", "analytics", "content", "digital", "advertising",
               "engagement", "reach", "impression", "click", "lead", "funnel"}
         [] c = "Influencers" ->
              {"influencer", "creator", "followers", "viral", "social media",
               "instagram", "tiktok", "youtube", "brand deal", "sponsorship",
               "engagement rate", "audience", "content creator", "reach"}
         [] c = "Business" ->
              {"business", "strategy", "consulting", "management", "operations",
               "startup", "entrepreneur", "ceo", "founder", "leadership", "growth",
               "scale", "revenue", "team", "process", "efficiency", "optimization"}]

\* content.words: the keywords that occur in title + description + extracted text
scoreRelevance(content, cat) ==
    LET matchCount == Cardinality(content.words \cap CATEGORY_KEYWORDS[cat])
        relevance == Min(matchCount * 20, 100)
        typeBoost ==
            IF cat = "Finance" /\ content.type = "pdf" THEN 10
            ELSE IF cat = "Design" /\ content.type = "image" THEN 20
            ELSE IF cat = "Entertainment" /\ content.type = "video" THEN 20
            ELSE IF cat = "Tech" /\ content.source = "github" THEN 20
            ELSE 0
    IN  Min(relevance + typeBoost, 100)

\* scoreQuality without the final Math.min(score, 1.0)
scoreQualityUnclamped(content) ==
    50 + (IF content.thumbnail_url THEN 10 ELSE 0)
       + (IF content.description_length > 50 THEN 10 ELSE 0)
       + (IF content.type = "video" /\ Truthy(content.width) /\ Truthy(content.height)
             /\ (content.width >= 1280 \/ content.height >= 720) THEN 15 ELSE 0)
       + (IF content.type = "video" /\ Truthy(content.width) /\ Truthy(content.height)
             /\ (content.width >= 3840 \/ content.height >= 2160) THEN 10 ELSE 0)
       + (IF content.type = "video" /\ Truthy(content.duration_seconds) THEN 10 ELSE 0)
       + (IF content.type = "image" /\ Truthy(content.width) /\ Truthy(content.height)
             /\ content.width >= 1000 /\ content.height >= 1000 THEN 15 ELSE 0)
       + (IF content.type = "pdf" /\ content.extracted_text THEN 15 ELSE 0)
       + (IF content.type = "pdf" /\ content.extracted_text /\ Truthy(content.page_count)
             /\ content.page_count > 1 THEN 5 ELSE 0)
       + (IF content.source = "github" /\ Truthy(content.readme_length)
             /\ content.readme_length > 200 THEN 15 ELSE 0)

scoreQuality(content) ==
    LET width == content.width
        height == content.height
        thumb == IF content.thumbnail_url THEN 10 ELSE 0
        desc == IF content.description_length > 50 THEN 10 ELSE 0
        video ==
            IF content.type = "video"
            THEN (IF Truthy(width) /\ Truthy(height)
                  THEN (IF width >= 1280 \/ height >= 720 THEN 15 ELSE 0)
                       + (IF width >= 3840 \/ height >= 2160 THEN 10 ELSE 0)
                  ELSE 0)
                 + (IF Truthy(content.duration_seconds) /\ content.duration_seconds > 0
                    THEN 10 ELSE 0)
            ELSE 0
        image ==
            IF content.type = "image" /\ Truthy(width) /\ Truthy(height)
               /\ width >= 1000 /\ height >= 1000
            THEN 15 ELSE 0
        pdf ==
            IF content.type = "pdf" /\ content.extracted_text
            THEN 15 + (IF Truthy(content.page_count) /\ content.page_count > 1 THEN 5 ELSE 0)
            ELSE 0
        readme ==
            IF content.source = "github" /\ Truthy(content.readme_length)
               /\ content.readme_length > 200
            THEN 15 ELSE 0
    IN  Min(50 + thumb + desc + video + image + pdf + readme, 100)

\* scoreCredibility with the third star bonus given from 100 stars on
scoreCredibilityThirdTierEarly(content) ==
    LET stars == content.stars
        trusted == IF content.source \in {"youtube", "github"} THEN 20 ELSE 0
        github ==
            IF content.source = "github" /\ Truthy(stars)
            THEN (IF stars > 10 THEN 10 ELSE 0) + (IF stars > 100 THEN 10 ELSE 0)
                 + (IF stars > 100 THEN 15 ELSE 0)
            ELSE 0
        pdf == IF content.type = "pdf" THEN 15 ELSE 0
        link == IF content.type = "external_link" THEN 10 ELSE 0
    IN  Max(0, Min(30 + trusted + github + pdf - link, 100))

scoreCredibility(content) ==
    LET views == content.view_count
        stars == content.stars
        trusted == IF content.source \in {"youtube", "github"} THEN 20 ELSE 0
        youtube ==
            IF content.source = "youtube" /\ Truthy(views)
            THEN (IF views > 1000 THEN 10 ELSE 0) + (IF views > 10000 THEN 10 ELSE 0)
                 + (IF views > 100000 THEN 10 ELSE 0)
            ELSE 0
        github ==
            IF content.source = "github" /\ Truthy(stars)
            THEN (IF stars > 10 THEN 10 ELSE 0) + (IF stars > 100 THEN 10 ELSE 0)
                 + (IF stars > 1000 THEN 15 ELSE 0)
            ELSE 0
        pdf == IF content.type = "pdf" THEN 15 ELSE 0
        link == IF content.type = "external_link" THEN 10 ELSE 0
    IN  Max(0, Min(30 + trusted + youtube + github + pdf - link, 100))

scoreEngagement(content) ==
    LET views == content.view_count
        likes == content.like_count
        video == IF content.type = "video" THEN 25 ELSE 0
        image == IF content.type = "image" THEN 20 ELSE 0
        youtube ==
            IF content.source = "youtube"
            THEN (IF Truthy(views)
                  THEN (IF views > 10000 THEN 15 ELSE 0) + (IF views > 100000 THEN 15 ELSE 0)
                  ELSE 0)
                 \* likes / views > 0.03
                 + (IF Truthy(likes) /\ Truthy(views) /\ likes * 100 > 3 * views THEN 10 ELSE 0)
            ELSE 0
        social ==
            IF content.type = "external_link"
               /\ content.source \in {"instagram", "tiktok", "linkedin"}
            THEN 15 ELSE 0
        longform == IF content.type \in {"text", "pdf"} THEN 10 ELSE 0
    IN  Max(0, Min(30 + video + image + youtube + social - longform, 100))

\* scoreFreshness with the steps closed on the right (<= in place of <)
scoreFreshnessClosedSteps(content, now) ==
    LET ageInDays == now - content.created_at
    IN  IF ageInDays <= 30 THEN 100
        ELSE IF ageInDays <= 90 THEN 80
        ELSE IF ageInDays <= 365 THEN 60
        ELSE IF ageInDays <= 730 THEN 40
        ELSE 20

\* `now` is the reading of new Date() inside the function
scoreFreshness(content, now) ==
    LET ageInDays == now - content.created_at
    IN  IF ageInDays < 30 THEN 100
        ELSE IF ageInDays < 90 THEN 80
        ELSE IF ageInDays < 365 THEN 60
        ELSE IF ageInDays < 730 THEN 40
        ELSE 20

\* Math.round(finalScore * 100) / 100, in hundredths
RoundToHundredths(tenThousandths) == (tenThousandths + 50) \div 100

\* The weighted sum is computed in IEEE doubles.  When the exact sum is a tie
\* x.xx5, the double sum can lie just below it (0.6149999999999999 for 0.615) and
\* Math.round then rounds down.  These are the <<category, relevance, quality,
\* credibility, engagement, freshness>> for which it does, among those that the
\* content shapes of this module produce; for all others of them the double sum
\* rounds as the exact sum does.
DoubleSumBelowTie ==
    {<<"Finance", 0, 50, 20, 45, 60>>, <<"Finance", 0, 50, 20, 45, 100>>,
     <<"Finance", 0, 70, 80, 85, 100>>, <<"Finance", 0, 70, 80, 95, 100>>,
     <<"Finance", 100, 70, 20, 45, 60>>, <<"Finance", 100, 70, 30, 20, 60>>,
     <<"Finance", 100, 70, 70, 70, 60>>, <<"Finance", 100, 70, 70, 70, 80>>,
     <<"Entertainment", 0, 50, 20, 45, 20>>, <<"Entertainment", 0, 50, 20, 45, 60>>,
     <<"Entertainment", 0, 50, 20, 45, 80>>, <<"Entertainment", 0, 50, 20, 45, 100>>,
     <<"Entertainment", 0, 50, 65, 20, 40>>, <<"Design", 0, 50, 20, 45, 40>>,
     <<"Design", 0, 50, 50, 20, 20>>, <<"Design", 0, 50, 50, 20, 40>>,
     <<"Design", 0, 50, 50, 20, 60>>, <<"Design", 0, 50, 50, 30, 40>>,
     <<"Design", 0, 50, 50, 55, 60>>, <<"Design", 0, 50, 50, 55, 100>>,
     <<"Design", 0, 50, 70, 55, 100>>, <<"Design", 20, 50, 30, 50, 100>>,
     <<"Design", 100, 70, 70, 70, 60>>, <<"Design", 100, 70, 70, 70, 80>>,
     <<"Design", 100, 70, 80, 60, 60>>, <<"Design", 100, 70, 80, 60, 80>>,
     <<"Design", 100, 70, 80, 70, 60>>, <<"Design", 100, 100, 85, 50, 100>>,
     <<"Design", 100, 100, 85, 55, 100>>, <<"Legal", 0, 50, 70, 20, 100>>,
     <<"Legal", 100, 70, 30, 20, 60>>, <<"Tech", 0, 50, 65, 20, 40>>,
     <<"Tech", 0, 85, 30, 55, 100>>, <<"Tech", 0, 90, 45, 20, 100>>,
     <<"Tech", 20, 50, 65, 20, 100>>, <<"Tech", 20, 50, 70, 20, 100>>,
     <<"Tech", 100, 70, 30, 20, 100>>, <<"Tech", 100, 70, 80, 60, 60>>,
     <<"Marketing", 0, 50, 50, 50, 60>>, <<"Marketing", 0, 50, 50, 50, 100>>,
     <<"Marketing", 0, 50, 70, 50, 100>>, <<"Marketing", 0, 60, 30, 20, 100>>,
     <<"Marketing", 0, 70, 80, 85, 100>>, <<"Marketing", 0, 70, 80, 95, 100>>,
     <<"Marketing", 0, 75, 70, 30, 100>>, <<"Marketing", 100, 70, 20, 45, 20>>,
     <<"Marketing", 100, 70, 20, 45, 100>>, <<"Marketing", 100, 70, 30, 20, 60>>,
     <<"Marketing", 100, 70, 30, 20, 80>>, <<"Marketing", 100, 70, 70, 70, 60>>,
     <<"Marketing", 100, 70, 70, 70, 80>>, <<"Influencers", 0, 50, 20, 45, 60>>,
     <<"Influencers", 0, 50, 20, 45, 100>>, <<"Influencers", 0, 50, 30, 50, 100>>,
     <<"Influencers", 100, 70, 20, 30, 60>>, <<"Influencers", 100, 70, 20, 30, 80>>,
     <<"Influencers", 100, 70, 20, 30, 100>>, <<"Influencers", 100, 70, 20, 45, 20>>,
     <<"Influencers", 100, 70, 20, 45, 40>>, <<"Influencers", 100, 70, 20, 45, 100>>,
     <<"Influencers", 100, 70, 30, 30, 60>>, <<"Influencers", 100, 70, 30, 30, 80>>,
     <<"Influencers", 100, 70, 30, 30, 100>>, <<"Influencers", 100, 70, 70, 70, 60>>,
     <<"Influencers", 100, 70, 70, 70, 80>>, <<"Influencers", 100, 70, 70, 70, 100>>,
     <<"Influencers", 100, 70, 80, 70, 60>>, <<"Influencers", 100, 70, 80, 70, 80>>,
     <<"Influencers", 100, 70, 80, 70, 100>>, <<"Business", 0, 50, 20, 30, 100>>,
     <<"Business", 0, 50, 30, 55, 60>>, <<"Business", 0, 50, 40, 30, 20>>,
     <<"Business", 0, 50, 40, 30, 40>>, <<"Business", 0, 50, 40, 30, 100>>,
     <<"Business", 0, 50, 50, 55, 100>>, <<"Business", 0, 50, 70, 55, 100>>,
     <<"Business", 100, 70, 20, 30, 40>>, <<"Business", 100, 70, 20, 30, 60>>,
     <<"Business", 100, 70, 20, 30, 80>>, <<"Business", 100, 70, 80, 70, 40>>,
     <<"Business", 100, 100, 80, 95, 60>>, <<"Business", 100, 100, 80, 95, 80>>}

scoreContent(content, cat, now) ==
    LET scores == [relevance |-> scoreRelevance(content, cat),
                   quality |-> scoreQuality(content),
                   credibility |-> scoreCredibility(content),
                   engagement |-> scoreEngagement(content),
                   freshness |-> scoreFreshness(content, now)]
        weights == CATEGORY_WEIGHTS[cat]
        finalScore == scores.relevance * weights.relevance
                      + scores.quality * weights.quality
                      + scores.credibility * weights.credibility
                      + scores.engagement * weights.engagement
                      + scores.freshness * weights.freshness
        belowTie == <<cat, scores.relevance, scores.quality, scores.credibility,
                      scores.engagement, scores.freshness>> \in DoubleSumBelowTie
    IN  content @@ [scores |-> scores,
                    final_score |-> RoundToHundredths(finalScore)
                                    - (IF belowTie THEN 1 ELSE 0)]

\* the comparator (a, b) => b.final_score - a.final_score: negative keeps a first
CompareScore(a, b) == b.final_score - a.final_score

\* InsertSorted of a sort that is not stable: an element goes before the elements
\* already placed that compare equal to it
RECURSIVE InsertBeforeEquals(_, _)
InsertBeforeEquals(sorted, x) ==
    IF sorted = <<>> THEN <<x>>
    ELSE IF CompareScore(Head(sorted), x) < 0
         THEN <<Head(sorted)>> \o InsertBeforeEquals(Tail(sorted), x)
         ELSE <<x>> \o sorted

\* Array.prototype.sort is stable: an element goes after every element already
\* placed that the comparator does not order after it
RECURSIVE InsertSorted(_, _)
InsertSorted(sorted, x) ==
    IF sorted = <<>> THEN <<x>>
    ELSE IF CompareScore(Head(sorted), x) <= 0
         THEN <<Head(sorted)>> \o InsertSorted(Tail(sorted), x)
         ELSE <<x>> \o sorted

\* SortByScore of a batch that is returned in input order
SortByScoreKeepsInput(list) == list

\* .sort((a, b) => b.final_score - a.final_score)
RECURSIVE SortByScore(_)
SortByScore(list) ==
    IF list = <<>> THEN <<>>
    ELSE InsertSorted(SortByScore(SubSeq(list, 1, Len(list) - 1)), list[Len(list)])

\* the reading of the clock may differ from one scoreContent call to the next;
\* `nows` gives the reading for each element
scoreContentBatch(list, cat, nows) ==
    SortByScore([i \in 1 .. Len(list) |-> scoreContent(list[i], cat, nows[i])])

(***************************************************************************)
(* services/composition.ts: section configuration                          *)
(***************************************************************************)
\* SECTION_CONFIGS with scroll_container first among the work section's preferredTypes
SECTION_CONFIGS_WorkScrollFirst ==
    << [id |-> "hook", order |-> 1, required |-> TRUE, minBlocks |-> 1, maxBlocks |-> 2,
        preferredTypes |-> <<"metric", "media", "expandable_text">>],
       [id |-> "credibility", order |-> 2, required |-> TRUE, minBlocks |-> 1, maxBlocks |-> 3,
        preferredTypes |-> <<"expandable_text", "external_link", "metric">>],
       [id |-> "work", order |-> 3, required |-> TRUE, minBlocks |-> 1, maxBlocks |-> 6,
        preferredTypes |-> <<"scroll_container", "gallery", "media", "comparison", "external_link">>],
       [id |-> "process", order |-> 4, required |-> FALSE, minBlocks |-> 0, maxBlocks |-> 2,
        preferredTypes |-> <<"timeline", "expandable_text", "hotspot_media">>],
       [id |-> "action", order |-> 5, required |-> TRUE, minBlocks |-> 1, maxBlocks |-> 1,
        preferredTypes |-> <<"cta">>] >>

SECTION_CONFIGS ==
    << [id |-> "hook", order |-> 1, required |-> TRUE, minBlocks |-> 1, maxBlocks |-> 2,
        preferredTypes |-> <<"metric", "media", "expandable_text">>],
       [id |-> "credibility", order |-> 2, required |-> TRUE, minBlocks |-> 1, maxBlocks |-> 3,
        preferredTypes |-> <<"expandable_text", "external_link", "metric">>],
       [id |-> "work", order |-> 3, required |-> TRUE, minBlocks |-> 1, maxBlocks |-> 6,
        preferredTypes |-> <<"gallery", "scroll_container", "media", "comparison", "external_link">>],
       [id |-> "process", order |-> 4, required |-> FALSE, minBlocks |-> 0, maxBlocks |-> 2,
        preferredTypes |-> <<"timeline", "expandable_text", "hotspot_media">>],
       [id |-> "action", order |-> 5, required |-> TRUE, minBlocks |-> 1, maxBlocks |-> 1,
        preferredTypes |-> <<"cta">>] >>

\* SECTION_CONFIGS.find(c => c.id === sectionId)
ConfigOf(sectionId) ==
    SECTION_CONFIGS[CHOOSE k \in 1 .. Len(SECTION_CONFIGS) : SECTION_CONFIGS[k].id = sectionId]

socialSources == {"github", "linkedin", "instagram", "twitter", "tiktok"}

\* HookFilter without the final_score rule
HookFilterNoScoreRule(content) ==
    IF content.type = "video" THEN TRUE
    ELSE IF content.source = "youtube" THEN TRUE
    ELSE content.type = "text" /\ content.text_type \in {"intro", "bio"}

\* SECTION_CONFIGS hook contentFilter
HookFilter(content) ==
    IF content.type = "video" THEN TRUE
    ELSE IF content.source = "youtube" THEN TRUE
    ELSE IF content.type = "text" /\ content.text_type \in {"intro", "bio"} THEN TRUE
    ELSE content.final_score > 60

CredibilityFilter(content) ==
    IF content.type = "pdf" THEN TRUE
    ELSE IF content.type = "external_link" THEN content.source \in socialSources
    ELSE IF content.source = "github" THEN TRUE
    ELSE content.scores.credibility > 50

WorkFilter(content) ==
    IF content.type \in {"image", "video", "code"} THEN TRUE
    ELSE IF content.type = "external_link" THEN content.source \notin socialSources
    ELSE IF content.type = "text" THEN FALSE
    ELSE IF content.type = "pdf" THEN FALSE
    ELSE content.scores.quality > 40

\* ProcessFilter without the test of is_resume
ProcessFilterAnyPdf(content) ==
    IF content.type = "text" /\ content.text_type \in {"about", "description", "general"} THEN TRUE
    ELSE content.type = "pdf"

\* SECTION_CONFIGS process contentFilter
ProcessFilter(content) ==
    IF content.type = "text" /\ content.text_type \in {"about", "description", "general"} THEN TRUE
    ELSE IF content.type = "pdf" /\ ~content.is_resume THEN TRUE
    ELSE FALSE

\* config.contentFilter(content, category); no filter reads the category
contentFilter(sectionId, content, cat) ==
    CASE sectionId = "hook" -> HookFilter(content)
      [] sectionId = "credibility" -> CredibilityFilter(content)
      [] sectionId = "work" -> WorkFilter(content)
      [] sectionId = "process" -> ProcessFilter(content)
      [] sectionId = "action" -> FALSE

CATEGORY_HOOK_TYPES ==
    [c \in Category |->
       CASE c \in {"Finance", "Marketing", "Business"} -> "metric"
         [] c \in {"Entertainment", "Tech", "Influencers"} -> "media"
         [] c = "Design" -> "comparison"
         [] c = "Legal" -> "expandable_text"]

(***************************************************************************)
(* assignContentToSections                                                 *)
(***************************************************************************)
\* Slice without the end index
SliceToEnd(list, n) == list

\* Array.prototype.slice(0, n)
Slice(list, n) == SubSeq(list, 1, Min(Max(n, 0), Len(list)))

IdsOf(list) == {list[i].content_id : i \in 1 .. Len(list)}

\* Unused without the test of usedContent
UnusedForgetsUsed(list, usedContent) == list

\* scoredContent.filter(c => !usedContent.has(c.content_id))
Unused(list, usedContent) ==
    SelectSeq(list, LAMBDA c : c.content_id \notin usedContent)

EmptyAssignments == [s \in SectionId |-> <<>>]

\* Candidates taken from the end of the filtered list
CandidatesFromEnd(list, usedContent, config, cat) ==
    LET fitting == SelectSeq(Unused(list, usedContent),
                             LAMBDA c : contentFilter(config.id, c, cat))
    IN  SubSeq(fitting, Max(Len(fitting) - config.maxBlocks, 0) + 1, Len(fitting))

\* Candidates in the reverse of the input order
CandidatesReversed(list, usedContent, config, cat) ==
    LET taken == Slice(SelectSeq(Unused(list, usedContent),
                                 LAMBDA c : contentFilter(config.id, c, cat)),
                       config.maxBlocks)
    IN  [i \in 1 .. Len(taken) |-> taken[Len(taken) + 1 - i]]

\* the candidates of one iteration of the first loop
Candidates(list, usedContent, config, cat) ==
    Slice(SelectSeq(Unused(list, usedContent),
                    LAMBDA c : contentFilter(config.id, c, cat)),
          config.maxBlocks)

\* whether the first loop passes over a section
FirstPassSkips(config) == config.id = "action"

\* the first loop, from SECTION_CONFIGS[k] on; st = [assignments, usedContent]
RECURSIVE FirstPassFrom(_, _, _, _)
FirstPassFrom(k, list, cat, st) ==
    IF k > Len(SECTION_CONFIGS) THEN st
    ELSE LET config == SECTION_CONFIGS[k]
             candidates == Candidates(list, st.usedContent, config, cat)
         IN  IF FirstPassSkips(config) THEN FirstPassFrom(k + 1, list, cat, st)
             ELSE FirstPassFrom(k + 1, list, cat,
                      [assignments |-> [st.assignments EXCEPT ![config.id] = @ \o candidates],
                       usedContent |-> st.usedContent \cup IdsOf(candidates)])

\* SecondPassSkips without the test for the action section
SecondPassSkipsOptionalOnly(config) == ~config.required

\* whether the second loop passes over a section
SecondPassSkips(config) == ~config.required \/ config.id = "action"

\* Remaining of a second loop that fills a section up to maxBlocks
RemainingUpToMax(list, usedContent, config, assigned) ==
    IF Len(assigned) < config.minBlocks
    THEN Slice(Unused(list, usedContent), config.maxBlocks - Len(assigned))
    ELSE <<>>

\* what the second loop adds to a section holding `assigned`
Remaining(list, usedContent, config, assigned) ==
    IF Len(assigned) < config.minBlocks
    THEN Slice(Unused(list, usedContent), config.minBlocks - Len(assigned))
    ELSE <<>>

\* SecondPassFrom of an assignment without the second loop
SecondPassOmitted(k, list, st) == st

\* the second loop, from SECTION_CONFIGS[k] on
RECURSIVE SecondPassFrom(_, _, _)
SecondPassFrom(k, list, st) ==
    IF k > Len(SECTION_CONFIGS) THEN st
    ELSE LET config == SECTION_CONFIGS[k]
             remaining == Remaining(list, st.usedContent, config, st.assignments[config.id])
         IN  IF SecondPassSkips(config) THEN SecondPassFrom(k + 1, list, st)
             ELSE SecondPassFrom(k + 1, list,
                      [assignments |-> [st.assignments EXCEPT ![config.id] = @ \o remaining],
                       usedContent |-> st.usedContent \cup IdsOf(remaining)])

FirstPass(list, cat) ==
    FirstPassFrom(1, list, cat, [assignments |-> EmptyAssignments, usedContent |-> {}])

assignContentToSections(list, cat) ==
    SecondPassFrom(1, list, FirstPass(list, cat)).assignments

(***************************************************************************)
(* selectBlockType                                                         *)
(***************************************************************************)
typeMapping(type) ==
    CASE type \in {"video", "image"} -> "media"
      [] type \in {"pdf", "text", "code"} -> "expandable_text"
      [] type = "external_link" -> "external_link"

Includes(list, x) == \E i \in 1 .. Len(list) : list[i] = x

\* selectBlockType with the hook rule tried before the overrides by content type
selectBlockTypeHookFirst(content, sectionId, cat) ==
    IF sectionId = "hook" THEN CATEGORY_HOOK_TYPES[cat]
    ELSE IF content.type \in {"pdf", "text"} THEN "expandable_text"
    ELSE IF content.type = "external_link" THEN "external_link"
    ELSE typeMapping(content.type)

\* selectBlockType without the test of preferredTypes
selectBlockTypeMappedAlways(content, sectionId, cat) ==
    IF content.type \in {"pdf", "text"} THEN "expandable_text"
    ELSE IF content.type = "external_link" THEN "external_link"
    ELSE IF content.source = "github" /\ content.is_profile THEN "external_link"
    ELSE IF sectionId = "hook" THEN CATEGORY_HOOK_TYPES[cat]
    ELSE typeMapping(content.type)

selectBlockType(content, sectionId, cat) ==
    LET sectionConfig == ConfigOf(sectionId)
        mappedType == typeMapping(content.type)
    IN  IF content.type = "pdf" THEN "expandable_text"
        ELSE IF content.type = "text" THEN "expandable_text"
        ELSE IF content.type = "external_link" THEN "external_link"
        ELSE IF content.source = "github" /\ content.is_profile THEN "external_link"
        ELSE IF sectionId = "hook" THEN CATEGORY_HOOK_TYPES[cat]
        ELSE IF Includes(sectionConfig.preferredTypes, mappedType) THEN mappedType
        ELSE sectionConfig.preferredTypes[1]

(***************************************************************************)
(* Block builder                                                           *)
(***************************************************************************)
\* A string of a block is a pair: Ref is the string held by a field of the content
\* record, Lit a literal of the code, Empty the empty string (or null)
Ref(content, field) == <<content.content_id, field>>
Lit(text) == <<0, text>>
Empty == Lit("")
\* a || b || '' over strings
FirstOf(alternatives) ==
    IF \E i \in 1 .. Len(alternatives) : alternatives[i] # Empty
    THEN alternatives[CHOOSE i \in 1 .. Len(alternatives) :
                         /\ alternatives[i] # Empty
                         /\ \A j \in 1 .. i - 1 : alternatives[j] = Empty]
    ELSE Empty

file_path(content) == IF content.file_path THEN Ref(content, "file_path") ELSE Empty
embed_url(content) == IF content.embed_url THEN Ref(content, "embed_url") ELSE Empty
thumbnail_url(content) == IF content.thumbnail_url THEN Ref(content, "thumbnail_url") ELSE Empty
description(content) == IF content.description_length > 0 THEN Ref(content, "description") ELSE Empty
extracted_text(content) == IF content.extracted_text THEN Ref(content, "extracted_text") ELSE Empty
title(content) == Ref(content, "title")

\* (num / 1000).toFixed(1) + 'K' and so on: the number of tenths and the suffix
formatNumber(num) ==
    IF num >= 1000000 THEN <<(num + 50000) \div 100000, "M">>
    ELSE IF num >= 1000 THEN <<(num + 50) \div 100, "K">>
    ELSE <<num * 10, "">>

buildMediaBlock(content) ==
    LET isVideo == content.type = "video" \/ content.source = "youtube"
    IN  [media_type |-> IF isVideo THEN "video" ELSE "image",
         url |-> FirstOf(<<file_path(content), embed_url(content)>>),
         mime_type |-> IF isVideo THEN "video/mp4" ELSE "image/jpeg",
         thumbnail |-> FirstOf(<<thumbnail_url(content), file_path(content)>>),
         alt_text |-> title(content),
         caption |-> description(content),
         playback |-> isVideo]

buildExpandableTextBlock(content) ==
    LET fullText ==
            IF content.source = "github" /\ content.is_profile
            THEN Ref(content, "profile_summary")
            ELSE FirstOf(<<extracted_text(content), description(content)>>)
        header ==
            IF content.type = "text" /\ content.text_type # "none"
            THEN CASE content.text_type = "bio" -> Lit("About Me")
                   [] content.text_type = "intro" -> Lit("Introduction")
                   [] content.text_type = "about" -> Lit("About")
                   [] content.text_type = "testimonial" -> Lit("Testimonial")
                   [] content.text_type = "description" -> Lit("Description")
                   [] OTHER -> title(content)
            ELSE title(content)
    IN  [preview |-> [slice |-> 200, of |-> fullText], full_content |-> fullText,
         header |-> header, tags |-> Ref(content, "tags")]

\* buildMetricBlock without the slice to four metrics
buildMetricBlockUnsliced(content) ==
    LET One(present, label, num) ==
            IF present THEN << [label |-> label, value |-> formatNumber(num), unit |-> Empty] >>
            ELSE <<>>
        extracted == One(Truthy(content.view_count), "Views", content.view_count)
                     \o One(content.is_profile /\ content.followers # Undefined,
                            "Followers", content.followers)
                     \o One(content.is_profile /\ content.public_repos # Undefined,
                            "Repos", content.public_repos)
                     \o One(content.stars # Undefined, "Stars", content.stars)
                     \o One(content.forks # Undefined, "Forks", content.forks)
        metrics == IF Len(extracted) = 0
                   THEN << [label |-> "Quality Score", value |-> <<content.final_score * 10, "">>,
                            unit |-> Lit("%")] >>
                   ELSE extracted
    IN  [metrics |-> metrics,
         layout |-> IF Len(metrics) <= 2 THEN "horizontal" ELSE "grid"]

buildMetricBlock(content) ==
    LET views == IF Truthy(content.view_count)
                 THEN << [label |-> "Views", value |-> formatNumber(content.view_count), unit |-> Empty] >>
                 ELSE <<>>
        followers == IF content.is_profile /\ content.followers # Undefined
                     THEN << [label |-> "Followers", value |-> formatNumber(content.followers), unit |-> Empty] >>
                     ELSE <<>>
        repos == IF content.is_profile /\ content.public_repos # Undefined
                 THEN << [label |-> "Repos", value |-> formatNumber(content.public_repos), unit |-> Empty] >>
                 ELSE <<>>
        stars == IF content.stars # Undefined
                 THEN << [label |-> "Stars", value |-> formatNumber(content.stars), unit |-> Empty] >>
                 ELSE <<>>
        forks == IF content.forks # Undefined
                 THEN << [label |-> "Forks", value |-> formatNumber(content.forks), unit |-> Empty] >>
                 ELSE <<>>
        extracted == views \o followers \o repos \o stars \o forks
        metrics == IF Len(extracted) = 0
                   THEN << [label |-> "Quality Score", value |-> <<content.final_score * 10, "">>,
                            unit |-> Lit("%")] >>
                   ELSE extracted
    IN  [metrics |-> Slice(metrics, 4),
         layout |-> IF Len(metrics) <= 2 THEN "horizontal" ELSE "grid"]

buildComparisonBlock(content) ==
    [before |-> Lit("/placeholder-before.jpg"),
     after |-> FirstOf(<<file_path(content), thumbnail_url(content)>>),
     caption |-> description(content)]

buildGalleryBlock(content) ==
    [items |-> << [url |-> FirstOf(<<file_path(content), thumbnail_url(content)>>),
                   caption |-> description(content), media_type |-> "image"] >>,
     columns |-> 2]

\* the entry's date is new Date() at the time of the call
buildTimelineBlock(content, now) ==
    [entries |-> << [date |-> now, title |-> title(content),
                     description |-> [slice |-> 200,
                                      of |-> FirstOf(<<extracted_text(content),
                                                       description(content)>>)]] >>]

buildExternalLinkBlock(content) ==
    LET platform == IF content.source \in {"instagram", "tiktok", "linkedin", "github", "youtube"}
                    THEN content.source ELSE "website"
        \* the parts joined with a bullet: which fields they are taken from
        desc ==
            IF content.source = "github" /\ content.is_profile
            THEN IF Truthy(content.followers) /\ Truthy(content.public_repos)
                 THEN Ref(content, "followers, public_repos")
                 ELSE IF Truthy(content.followers) THEN Ref(content, "followers")
                 ELSE IF Truthy(content.public_repos) THEN Ref(content, "public_repos")
                 ELSE description(content)
            ELSE IF content.source = "github" /\ content.stars # Undefined
                 THEN IF Truthy(content.forks) THEN Ref(content, "stars, forks")
                      ELSE Ref(content, "stars")
                 ELSE description(content)
    IN  [url |-> Ref(content, "original_url"), platform |-> platform,
         preview_title |-> title(content), preview_description |-> desc,
         thumbnail_url |-> thumbnail_url(content)]

buildHotspotMediaBlock(content) ==
    [base_media |-> FirstOf(<<file_path(content), thumbnail_url(content)>>), hotspots |-> <<>>]

buildCTABlock(content) ==
    [primary_action |-> [label |-> "Contact", action_type |-> "open_chat"],
     secondary_action |-> Empty]

\* generateBlockId() calls made while one block is built
BlockDraws(blockType) == IF blockType = "scroll_container" THEN 2 ELSE 1

\* buildBlock whose expandable_text case calls the timeline builder, which
\* stamps the entry with new Date()
buildBlockTextAsTimeline(content, blockType, sectionId, draws, at, now) ==
    [block_id |-> <<"b", draws[at]>>,
     visibility |-> [initial |-> IF sectionId = "hook" THEN "expanded" ELSE "collapsed",
                     priority |-> IF content.final_score > 70 THEN "high" ELSE "medium"],
     style |-> [padding |-> "medium"],
     built_from |-> content.content_id,
     block_type |-> blockType,
     content |-> IF blockType = "expandable_text"
                 THEN buildTimelineBlock(content, now)
                 ELSE buildMediaBlock(content)]

\* draws[at] is the value of the block's generateBlockId() call
buildBlock(content, blockType, sectionId, draws, at, now) ==
    LET base == [block_id |-> <<"b", draws[at]>>,
                 visibility |-> [initial |-> IF sectionId = "hook" THEN "expanded" ELSE "collapsed",
                                 priority |-> IF content.final_score > 70 THEN "high" ELSE "medium"],
                 style |-> [padding |-> "medium"],
                 \* not a field of the block: the item the block was built from
                 built_from |-> content.content_id]
        payload ==
            CASE blockType = "media" -> buildMediaBlock(content)
              [] blockType = "expandable_text" -> buildExpandableTextBlock(content)
              [] blockType = "metric" -> buildMetricBlock(content)
              [] blockType = "comparison" -> buildComparisonBlock(content)
              [] blockType = "gallery" -> buildGalleryBlock(content)
              [] blockType = "timeline" -> buildTimelineBlock(content, now)
              [] blockType = "external_link" -> buildExternalLinkBlock(content)
              [] blockType = "scroll_container" ->
                     [children |-> << [block_id |-> <<"b", draws[at + 1]>>,
                                       block_type |-> "media",
                                       content |-> buildMediaBlock(content)] >>]
              [] blockType = "hotspot_media" -> buildHotspotMediaBlock(content)
              [] blockType = "cta" -> buildCTABlock(content)
              [] OTHER -> buildMediaBlock(content)
    IN  base @@ [block_type |-> IF blockType \in BlockType THEN blockType ELSE "media",
                 content |-> payload]

(***************************************************************************)
(* Sections, navigation and the portfolio document                         *)
(***************************************************************************)
\* the blocks of contents.map(content => buildBlock(content, selectBlockType(...), sectionId));
\* the generateBlockId() calls of the section take draws[at], draws[at + 1], ...
RECURSIVE BuildBlocks(_, _, _, _, _, _)
BuildBlocks(sectionId, list, cat, draws, at, now) ==
    IF list = <<>> THEN <<>>
    ELSE LET blockType == selectBlockType(Head(list), sectionId, cat)
         IN  <<buildBlock(Head(list), blockType, sectionId, draws, at, now)>>
             \o BuildBlocks(sectionId, Tail(list), cat, draws, at + BlockDraws(blockType), now)

RECURSIVE DrawsOf(_, _, _)
DrawsOf(sectionId, list, cat) ==
    IF list = <<>> THEN 0
    ELSE BlockDraws(selectBlockType(Head(list), sectionId, cat))
         + DrawsOf(sectionId, Tail(list), cat)

buildSection(sectionId, list, cat, draws, at, now) ==
    LET config == ConfigOf(sectionId)
    IN  [section_id |-> sectionId,
         order |-> config.order,
         layout |-> IF sectionId = "hook" THEN "full" ELSE "contained",
         visibility |-> [initial |-> "visible", min_content_required |-> config.minBlocks],
         blocks |-> BuildBlocks(sectionId, list, cat, draws, at, now)]

buildCTASection(userId, draws, at) ==
    [section_id |-> "action",
     order |-> 5,
     layout |-> "contained",
     visibility |-> [initial |-> "visible", min_content_required |-> 1],
     blocks |-> << [block_id |-> <<"b", draws[at]>>,
                    block_type |-> "cta",
                    content |-> [primary_action |-> [label |-> "Get in Touch",
                                                     action_type |-> "open_chat",
                                                     payload |-> userId],
                                 secondary_action |-> [label |-> "Save Card",
                                                       action_type |-> "save_card"]],
                    visibility |-> [initial |-> "expanded", priority |-> "high"],
                    style |-> [padding |-> "large"]] >>]

\* EmitsSection skipping every section that has no content
EmitsOnlyNonEmpty(config, sectionContent) == Len(sectionContent) > 0

\* EmitsSection without the skip of empty optional sections
EmitsAlways(config, sectionContent) == TRUE

\* EmitsSection leaving out every optional section
EmitsRequiredOnly(config, sectionContent) == config.required

\* whether composePortfolio builds the section of a config other than action
EmitsSection(config, sectionContent) ==
    /\ ~(~config.required /\ Len(sectionContent) = 0)
    /\ (Len(sectionContent) > 0 \/ config.required)

\* the loop over SECTION_CONFIGS of composePortfolio, from SECTION_CONFIGS[k] on
RECURSIVE BuildSectionsFrom(_, _, _, _, _, _, _)
BuildSectionsFrom(k, assigned, cat, userId, draws, at, now) ==
    IF k > Len(SECTION_CONFIGS) THEN <<>>
    ELSE LET config == SECTION_CONFIGS[k]
             sectionContent == assigned[config.id]
         IN  IF config.id = "action"
             THEN <<buildCTASection(userId, draws, at)>>
                  \o BuildSectionsFrom(k + 1, assigned, cat, userId, draws, at + 1, now)
             ELSE IF EmitsSection(config, sectionContent)
             THEN <<buildSection(config.id, sectionContent, cat, draws, at, now)>>
                  \o BuildSectionsFrom(k + 1, assigned, cat, userId, draws,
                                       at + DrawsOf(config.id, sectionContent, cat), now)
             ELSE BuildSectionsFrom(k + 1, assigned, cat, userId, draws, at, now)

\* sections.sort((a, b) => a.order - b.order), a stable sort
RECURSIVE InsertSection(_, _)
InsertSection(sorted, x) ==
    IF sorted = <<>> THEN <<x>>
    ELSE IF Head(sorted).order - x.order <= 0
         THEN <<Head(sorted)>> \o InsertSection(Tail(sorted), x)
         ELSE <<x>> \o sorted

RECURSIVE SortSections(_)
SortSections(sections) ==
    IF sections = <<>> THEN <<>>
    ELSE InsertSection(SortSections(SubSeq(sections, 1, Len(sections) - 1)),
                       sections[Len(sections)])

sectionLabels(sectionId) ==
    CASE sectionId = "hook" -> [label |-> "Overview", icon |-> "star.fill"]
      [] sectionId = "credibility" -> [label |-> "About", icon |-> "person.fill"]
      [] sectionId = "work" -> [label |-> "Work", icon |-> "briefcase.fill"]
      [] sectionId = "process" -> [label |-> "Process", icon |-> "gearshape.fill"]
      [] sectionId = "action" -> [label |-> "Contact", icon |-> "message.fill"]

\* buildNavigation over the configured sections instead of the emitted ones
buildNavigationOfConfigs(portfolioId, sections) ==
    [anchors |-> [id \in SectionId |-> <<"section_", id>>],
     deep_links |-> [base_url |-> <<"reshuffle://portfolio/", portfolioId>>,
                     section_format |-> <<"reshuffle://portfolio/", portfolioId, "/{section_id}">>,
                     block_format |-> <<"reshuffle://portfolio/", portfolioId, "/block/{block_id}">>],
     quick_nav |-> [i \in 1 .. Len(SECTION_CONFIGS) |->
                       [label |-> sectionLabels(SECTION_CONFIGS[i].id).label,
                        target_section |-> SECTION_CONFIGS[i].id,
                        icon |-> sectionLabels(SECTION_CONFIGS[i].id).icon]]]

buildNavigation(portfolioId, sections) ==
    [anchors |-> [id \in {sections[i].section_id : i \in 1 .. Len(sections)} |->
                     <<"section_", id>>],
     deep_links |-> [base_url |-> <<"reshuffle://portfolio/", portfolioId>>,
                     section_format |-> <<"reshuffle://portfolio/", portfolioId, "/{section_id}">>,
                     block_format |-> <<"reshuffle://portfolio/", portfolioId, "/block/{block_id}">>],
     quick_nav |-> [i \in 1 .. Len(sections) |->
                       [label |-> sectionLabels(sections[i].section_id).label,
                        target_section |-> sections[i].section_id,
                        icon |-> sectionLabels(sections[i].section_id).icon]]]

buildAnalytics ==
    <<"portfolio_view", "section_view", "block_interaction", "cta_click",
      "external_link_click", "share">>

\* draws[1] is the value of generatePortfolioId(), the next ones those of the
\* generateBlockId() calls in the order they are made; `now` is the reading of now()
composePortfolio(list, options, draws, now) ==
    LET portfolioId == <<"p", draws[1]>>
        assigned == assignContentToSections(list, options.category)
        sections == SortSections(BuildSectionsFrom(1, assigned, options.category,
                                                   options.userId, draws, 2, now))
    IN  [portfolio_id |-> portfolioId,
         user_id |-> options.userId,
         category |-> options.category,
         version |-> "v1",
         meta |-> [title |-> options.title, subtitle |-> options.subtitle,
                   created_at |-> now, updated_at |-> now,
                   language |-> "en", theme |-> "auto"],
         sections |-> sections,
         navigation |-> buildNavigation(portfolioId, sections),
         analytics |-> buildAnalytics]

\* the number of generateId() calls one composePortfolio makes
RECURSIVE SectionDrawsFrom(_, _, _)
SectionDrawsFrom(k, assigned, cat) ==
    IF k > Len(SECTION_CONFIGS) THEN 0
    ELSE LET config == SECTION_CONFIGS[k]
         IN  (IF config.id = "action" THEN 1
              ELSE IF EmitsSection(config, assigned[config.id])
                   THEN DrawsOf(config.id, assigned[config.id], cat)
                   ELSE 0)
             + SectionDrawsFrom(k + 1, assigned, cat)

DrawsNeeded(list, cat) == 1 + SectionDrawsFrom(1, assignContentToSections(list, cat), cat)

(***************************************************************************)
(* Inputs: normalized content records as the ingestion handlers produce    *)
(* them (handlers/*.ts).  created_at is the day of creation; the clock     *)
(* reads 0 .. MaxClock, so created_at = -29 is 29 days old at time 0.      *)
(***************************************************************************)
Blank(type, source) ==
    [type |-> type, source |-> source, words |-> {}, description_length |-> 0,
     created_at |-> 0, thumbnail_url |-> FALSE, file_path |-> FALSE, embed_url |-> FALSE,
     width |-> Undefined, height |-> Undefined, duration_seconds |-> Undefined,
     extracted_text |-> FALSE, page_count |-> Undefined, readme_length |-> Undefined,
     view_count |-> Undefined, like_count |-> Undefined, stars |-> Undefined,
     forks |-> Undefined, followers |-> Undefined, public_repos |-> Undefined,
     is_profile |-> FALSE, is_resume |-> FALSE, text_type |-> "none"]

UploadVideo ==
    [Blank("video", "upload") EXCEPT !.file_path = TRUE, !.thumbnail_url = TRUE,
        !.width = 1920, !.height = 1080, !.duration_seconds = 60]
YoutubeVideo ==
    [Blank("video", "youtube") EXCEPT !.embed_url = TRUE, !.thumbnail_url = TRUE,
        !.view_count = 150000, !.like_count = 6000, !.description_length = 80,
        !.words = {"video", "viral", "views", "creator", "youtube"}]
\* YoutubeVideo with a like ratio of 0.01
QuietYoutubeVideo == [YoutubeVideo EXCEPT !.like_count = 1500]
\* a YouTube video published 800 days before clock reading 0, with no description
OldYoutubeVideo ==
    [Blank("video", "youtube") EXCEPT !.embed_url = TRUE, !.thumbnail_url = TRUE,
        !.view_count = 150000, !.like_count = 6000, !.created_at = 0 - 800]
UploadImage ==
    [Blank("image", "upload") EXCEPT !.file_path = TRUE, !.thumbnail_url = TRUE,
        !.width = 1200, !.height = 1200, !.words = {"design", "logo", "brand"}]
ResumePdf ==
    [Blank("pdf", "upload") EXCEPT !.file_path = TRUE, !.extracted_text = TRUE,
        !.page_count = 2, !.is_resume = TRUE]
ReportPdf ==
    [Blank("pdf", "upload") EXCEPT !.file_path = TRUE, !.extracted_text = TRUE,
        !.page_count = 12, !.thumbnail_url = TRUE, !.description_length = 120,
        !.words = {"finance", "investment", "audit", "tax", "budget",
                   "legal", "contract", "compliance", "court", "case"}]
IntroText == [Blank("text", "input") EXCEPT !.extracted_text = TRUE, !.text_type = "intro"]
AboutText ==
    [Blank("text", "input") EXCEPT !.extracted_text = TRUE, !.text_type = "about",
        !.description_length = 200]
TestimonialText ==
    [Blank("text", "input") EXCEPT !.extracted_text = TRUE, !.text_type = "testimonial"]
GithubRepo ==
    [Blank("code", "github") EXCEPT !.stars = 150, !.forks = 10, !.readme_length = 300,
        !.description_length = 60, !.created_at = 0 - 29,
        !.words = {"software", "api", "cloud", "data", "code"}]
GithubProfile ==
    [Blank("code", "github") EXCEPT !.is_profile = TRUE, !.followers = 1200,
        !.public_repos = 12, !.thumbnail_url = TRUE, !.created_at = 0 - 400]
LinkedinLink == Blank("external_link", "linkedin")
WebsiteLink == [Blank("external_link", "website") EXCEPT !.created_at = 0 - 89]

\* a record with every optional field present and large
Full(type, source) ==
    [Blank(type, source) EXCEPT
        !.words = UNION {CATEGORY_KEYWORDS[c] : c \in Category},
        !.description_length = 500, !.thumbnail_url = TRUE, !.file_path = TRUE,
        !.embed_url = TRUE, !.width = 3840, !.height = 2160, !.duration_seconds = 600,
        !.extracted_text = TRUE, !.page_count = 20, !.readme_length = 5000,
        !.view_count = 2000000, !.like_count = 100000, !.stars = 5000, !.forks = 300]

\* a record from GitHub with 150 stars and nothing else
StarredGithub(type) == [Blank(type, "github") EXCEPT !.stars = 150]

\* ages in days, at clock reading 0, next to the steps of scoreFreshness
Ages == {29, 89, 364, 729}

\* the shapes the general specifications draw from
Catalogue == {UploadVideo, YoutubeVideo, UploadImage, ResumePdf, ReportPdf, IntroText,
              AboutText, TestimonialText, GithubRepo, GithubProfile, LinkedinLink, WebsiteLink}
\* documents only: long lists of them overfill the credibility section
DocumentCatalogue == {ResumePdf, ReportPdf}
\* the shapes of the specification that invokes each operation twice
TwiceCatalogue == {AboutText, GithubRepo}

\* the content of a POST /content/score request: any type from any source, with no
\* optional field or with all of them, of any age
AnyContent ==
    Catalogue
    \cup {StarredGithub(t) : t \in ContentType}
    \cup {[shape EXCEPT !.created_at = 0 - age] :
              shape \in UNION {{Blank(t, s), Full(t, s)} : t \in ContentType, s \in ContentSource},
              age \in Ages}

\* videos whose engagement and whose other sub-scores differ
VideoCatalogue == {UploadVideo, YoutubeVideo, QuietYoutubeVideo, OldYoutubeVideo,
                   Full("video", "upload")}

\* lists of at most n items made of a run of each shape in turn
Runs(shapes, n) ==
    LET Counts == {count \in [1 .. Len(shapes) -> 0 .. n] :
                       count[1] + count[2] + count[3] <= n}
        ShapeAt(count, i) ==
            IF i <= count[1] THEN shapes[1]
            ELSE IF i <= count[1] + count[2] THEN shapes[2] ELSE shapes[3]
    IN  {[i \in 1 .. count[1] + count[2] + count[3] |->
             ShapeAt(count, i) @@ [content_id |-> i]] : count \in Counts}

\* records with any combination of the statistics buildMetricBlock reads; a count
\* of 0 is present but falsy
MetricShapes ==
    {[Blank("code", "github") EXCEPT !.view_count = views, !.is_profile = profile,
          !.followers = followers, !.public_repos = repos, !.stars = stars, !.forks = forks] :
        views \in {Undefined, 0, 150000}, profile \in BOOLEAN,
        followers \in {Undefined, 1200}, repos \in {Undefined, 12},
        stars \in {Undefined, 0, 150}, forks \in {Undefined, 10}}

\* what processYouTubeURL returns from oEmbed metadata: no statistics
OembedVideo == [Blank("video", "youtube") EXCEPT !.embed_url = TRUE, !.thumbnail_url = TRUE]

\* lists of at most n shapes; content_id is the place in the list (ids are unique)
Lists(shapes, n) ==
    UNION {{[i \in 1 .. k |-> shape[i] @@ [content_id |-> i]] : shape \in [1 .. k -> shapes]} :
           k \in 0 .. n}

(***************************************************************************)
(* services/ingestion.ts: ingestContent and ingestBatch.  A raw input is   *)
(* [type, given, platform]: `given` tells whether its url, file or text is *)
(* present, `platform` is detectPlatform(url).  Whether the handler of an  *)
(* input throws is an outcome of the environment.                          *)
(***************************************************************************)
RawInputs ==
    {[type |-> "url", given |-> TRUE, platform |-> pf] :
         pf \in {"youtube", "github", "linkedin", "website"}}
    \cup {[type |-> "url", given |-> FALSE, platform |-> "none"]}
    \cup {[type |-> t, given |-> g, platform |-> "none"] :
              t \in {"image", "pdf", "text"}, g \in BOOLEAN}
    \cup {[type |-> "video", given |-> TRUE, platform |-> "none"],
          [type |-> "audio", given |-> TRUE, platform |-> "none"]}

\* the record the handler of an input returns when it does not throw
Normalized(input) ==
    CASE input.type = "url" /\ input.platform = "youtube" -> OembedVideo
      [] input.type = "url" /\ input.platform = "github" -> GithubRepo
      [] input.type = "url" /\ input.platform = "linkedin" -> LinkedinLink
      [] input.type = "url" -> WebsiteLink
      [] input.type = "image" -> UploadImage
      [] input.type = "video" -> UploadVideo
      [] input.type = "pdf" -> ReportPdf
      [] input.type = "text" -> AboutText

\* the message of the error ingestContent itself throws, "" if it throws none
RequiredError(input) ==
    CASE input.type = "url" -> IF input.given THEN "" ELSE "URL is required"
      [] input.type = "image" -> IF input.given THEN "" ELSE "Image file is required"
      [] input.type = "video" -> IF input.given THEN "" ELSE "Video file is required"
      [] input.type = "pdf" -> IF input.given THEN "" ELSE "PDF file is required"
      [] input.type = "text" -> IF input.given THEN "" ELSE "Text content is required"
      [] OTHER -> "Unknown input type"

\* `throws`: the handler rejects; `id` is the value of generateContentId()
ingestContent(input, throws, id) ==
    IF RequiredError(input) # ""
    THEN [success |-> FALSE, content_id |-> 0, error |-> RequiredError(input)]
    ELSE IF throws
    THEN [success |-> FALSE, content_id |-> 0, error |-> "handler error"]
    ELSE [success |-> TRUE, content_id |-> id,
          normalized |-> Normalized(input) @@ [content_id |-> id]]

\* ingestBatch in which an error of ingestContent leaves the loop
ingestBatchAbortsOnFailure(list, cat, throws, nows) ==
    LET all == [i \in 1 .. Len(list) |-> ingestContent(list[i], throws[i], i)]
        failures == {i \in 1 .. Len(list) : ~all[i].success}
        last == IF failures = {} THEN Len(list)
                ELSE (CHOOSE i \in failures : \A j \in failures : i <= j) - 1
        results == SubSeq(all, 1, last)
        normalizedContent == [i \in 1 .. last |-> results[i].normalized]
    IN  [total |-> Len(list),
         successful |-> Len(normalizedContent),
         failed |-> Len(list) - Len(normalizedContent),
         results |-> results,
         normalized_content |-> normalizedContent,
         scored_content |-> scoreContentBatch(normalizedContent, cat, nows)]

\* throws[i]: whether the handler of the i-th input throws; the i-th input's
\* generateContentId() gives i
ingestBatch(list, cat, throws, nows) ==
    LET results == [i \in 1 .. Len(list) |-> ingestContent(list[i], throws[i], i)]
        succeeded == SelectSeq(results, LAMBDA r : r.success)
        normalizedContent == [i \in 1 .. Len(succeeded) |-> succeeded[i].normalized]
    IN  [total |-> Len(list),
         successful |-> Len(normalizedContent),
         failed |-> Len(list) - Len(normalizedContent),
         results |-> results,
         normalized_content |-> normalizedContent,
         scored_content |-> scoreContentBatch(normalizedContent, cat, nows)]

(***************************************************************************)
(* services/handlers/youtube.ts: extractYouTubeMetadata and its cache.     *)
(* Times are hours.  The cache is a set of entries [videoId, data,         *)
(* expires], at most one per video id.  A call is atomic up to its first   *)
(* await (the cache lookup and the start of the fetch) and from the        *)
(* arrival of the response to its return (cache.set).                      *)
(***************************************************************************)
CACHE_TTL == 24

VideoIds == {"v1", "v2"}
\* what the oEmbed request can come to: a response with the fields, a response
\* without them, and a failure (response not ok, or fetch or json() rejecting)
Responses == {"full", "bare", "failed"}

fetchOEmbed(videoId, response) ==
    CASE response = "full" ->
             [title |-> <<"data.title", videoId>>,
              description |-> <<"", "">>,
              thumbnail_url |-> <<"data.thumbnail_url", videoId>>,
              channel_name |-> <<"data.author_name", videoId>>]
      [] response = "bare" ->
             [title |-> <<"YouTube Video ", videoId>>,
              description |-> <<"", "">>,
              thumbnail_url |-> <<"https://img.youtube.com/vi/", videoId>>,
              channel_name |-> <<"undefined", "">>]
      [] response = "failed" ->
             [title |-> <<"YouTube Video ", videoId>>,
              description |-> <<"", "">>,
              thumbnail_url |-> <<"https://img.youtube.com/vi/", videoId>>]

\* CacheHit with an entry that is still served at the moment it expires
CacheHitAtExpiry(cache, videoId, dateNow) ==
    \E cached \in cache : cached.videoId = videoId /\ cached.expires >= dateNow

\* cached && cached.expires > Date.now()
CacheHit(cache, videoId, dateNow) ==
    \E cached \in cache : cached.videoId = videoId /\ cached.expires > dateNow

\* cache.get(videoId).data
CachedData(cache, videoId) == (CHOOSE cached \in cache : cached.videoId = videoId).data

\* cache.set(videoId, {data, expires: Date.now() + CACHE_TTL})
CacheSet(cache, videoId, data, dateNow) ==
    {cached \in cache : cached.videoId # videoId}
    \cup {[videoId |-> videoId, data |-> data, expires |-> dateNow + CACHE_TTL]}

(***************************************************************************)
(* The state machine: a request scores its content list and composes the   *)
(* portfolio from the scored list (api/portfolios.ts, via ingestBatch).    *)
(***************************************************************************)
NoDocument == [version |-> "none"]
NoBlock == [block_type |-> "none"]

Options == [userId |-> "user1", category |-> category,
            title |-> "My Portfolio", subtitle |-> ""]

NoResult == [total |-> Undefined]

\* no ingestBatch call and no YouTube call has been made
IngestIdle == inputs = <<>> /\ ingested = NoResult
YoutubeIdle ==
    /\ ytClock = 0
    /\ ytCache = {}
    /\ ytCalls = <<>>
    /\ ytEvents = 0

RequestIdle(lists, categories, calls, ids) ==
    /\ category \in categories
    /\ contents \in lists
    /\ maxCalls = calls
    /\ scoreCalls = 0
    /\ composeCalls = 0
    /\ scored = <<>>
    /\ prevScored = <<>>
    /\ firstPass = EmptyAssignments
    /\ assignments = EmptyAssignments
    /\ composedFrom = <<>>
    /\ portfolio = NoDocument
    /\ prevComposedFrom = <<>>
    /\ prevPortfolio = NoDocument
    /\ scoredAt = Undefined
    /\ idSpace = ids
    /\ built = NoBlock

InitWith(lists, categories, calls, ids) ==
    /\ RequestIdle(lists, categories, calls, ids)
    /\ IngestIdle
    /\ YoutubeIdle

\* the readings of the clock during one batch: time does not run backwards
ClockReadings(n) ==
    {nows \in [1 .. n -> Times] : \A i \in 1 .. n - 1 : nows[i] <= nows[i + 1]}

\* scoreContentBatch(contents, category)
ScoreBatch ==
    /\ scoreCalls < maxCalls
    /\ \E nows \in ClockReadings(Len(contents)) :
           scored' = scoreContentBatch(contents, category, nows)
    /\ prevScored' = scored
    /\ scoreCalls' = scoreCalls + 1
    /\ UNCHANGED <<category, contents, maxCalls, composeCalls, firstPass, assignments,
                   composedFrom, portfolio, prevComposedFrom, prevPortfolio, scoredAt,
                   idSpace, built, ingestVars, youtubeVars>>

\* POST /content/score: scoreContent(content, category) on the content of the request
ScoreContent ==
    /\ scoreCalls < maxCalls
    /\ Len(contents) = 1
    /\ \E now \in Times :
           /\ scored' = <<scoreContent(contents[1], category, now)>>
           /\ scoredAt' = now
    /\ prevScored' = scored
    /\ scoreCalls' = scoreCalls + 1
    /\ UNCHANGED <<category, contents, maxCalls, composeCalls, firstPass, assignments,
                   composedFrom, portfolio, prevComposedFrom, prevPortfolio, idSpace,
                          built, ingestVars, youtubeVars>>

\* buildBlock(content, blockType, sectionId) on a scored record
BuildBlock ==
    /\ scoreCalls > 0
    /\ Len(scored) = 1
    /\ built = NoBlock
    /\ \E blockType \in BlockType, sectionId \in SectionId, now \in Times,
          draws \in [1 .. 2 -> idSpace] :
           built' = buildBlock(scored[1], blockType, sectionId, draws, 1, now)
    /\ UNCHANGED <<category, contents, maxCalls, scoreCalls, composeCalls, scored, prevScored,
                   firstPass, assignments, composedFrom, portfolio, prevComposedFrom,
                   prevPortfolio, scoredAt, idSpace, ingestVars, youtubeVars>>

\* ingestBatch(inputs, category)
IngestBatch ==
    /\ ingested = NoResult
    /\ \E throws \in [1 .. Len(inputs) -> BOOLEAN], nows \in ClockReadings(Len(inputs)) :
           ingested' = ingestBatch(inputs, category, throws, nows)
    /\ UNCHANGED <<requestVars, inputs, youtubeVars>>

\* extractYouTubeMetadata(url) up to its first await: a fresh entry is returned,
\* otherwise the oEmbed request is sent
YtStart ==
    /\ Len(ytCalls) < MaxYtCalls
    /\ \E videoId \in VideoIds :
           ytCalls' = Append(ytCalls,
               IF CacheHit(ytCache, videoId, ytClock)
               THEN [videoId |-> videoId, pc |-> "done", fetched |-> FALSE,
                     startedAt |-> ytClock, startedEvent |-> ytEvents + 1,
                     doneAt |-> ytClock, doneEvent |-> ytEvents + 1,
                     data |-> CachedData(ytCache, videoId)]
               ELSE [videoId |-> videoId, pc |-> "fetching", fetched |-> TRUE,
                     startedAt |-> ytClock, startedEvent |-> ytEvents + 1])
    /\ ytEvents' = ytEvents + 1
    /\ UNCHANGED <<requestVars, ingestVars, ytClock, ytCache>>

\* the rest of a call that sent the request: fetchOEmbed returns, the result is
\* stored and returned
YtFetchDone ==
    /\ \E k \in 1 .. Len(ytCalls), response \in Responses :
           /\ ytCalls[k].pc = "fetching"
           /\ LET metadata == fetchOEmbed(ytCalls[k].videoId, response)
              IN  /\ ytCache' = CacheSet(ytCache, ytCalls[k].videoId, metadata, ytClock)
                  /\ ytCalls' = [ytCalls EXCEPT ![k] =
                         [videoId |-> @.videoId, pc |-> "done", fetched |-> TRUE,
                          startedAt |-> @.startedAt, startedEvent |-> @.startedEvent,
                          doneAt |-> ytClock, doneEvent |-> ytEvents + 1,
                          data |-> metadata]]
    /\ ytEvents' = ytEvents + 1
    /\ UNCHANGED <<requestVars, ingestVars, ytClock>>

\* the hours at which the clock is read: those next to a multiple of CACHE_TTL
HourMarks == {h \in 0 .. MaxHour : h % CACHE_TTL \in {0, 1, CACHE_TTL - 1}}

\* time passes
YtTick ==
    /\ \E later \in HourMarks :
           /\ later > ytClock
           /\ ytClock' = later
    /\ UNCHANGED <<requestVars, ingestVars, ytCache, ytCalls, ytEvents>>

\* composePortfolio(scored, options), on the latest scored list
Compose ==
    /\ scoreCalls > 0
    /\ composeCalls < maxCalls
    /\ \E now \in Times, draws \in [1 .. DrawsNeeded(scored, category) -> idSpace] :
           portfolio' = composePortfolio(scored, Options, draws, now)
    /\ firstPass' = FirstPass(scored, category).assignments
    /\ assignments' = assignContentToSections(scored, category)
    /\ composedFrom' = scored
    /\ prevComposedFrom' = composedFrom
    /\ prevPortfolio' = portfolio
    /\ composeCalls' = composeCalls + 1
    /\ UNCHANGED <<category, contents, maxCalls, scoreCalls, scored, prevScored, scoredAt,
                   idSpace, built, ingestVars, youtubeVars>>

\* a request: one scoring, one composition, any category, short lists of any shape
Init == InitWith(Lists(Catalogue, MaxItems), Category, 1, UuidSpace)
Next == ScoreBatch \/ Compose
Spec == Init /\ [][Next]_vars

\* a request with a long list of documents
InitLong == InitWith(Lists(DocumentCatalogue, MaxLong), {"Finance", "Tech"}, 1, UuidSpace)
SpecLong == InitLong /\ [][Next]_vars

\* the same request served twice
InitTwice == InitWith(Lists(TwiceCatalogue, MaxItems), {"Finance", "Tech"}, 2, UuidSpace)
SpecTwice == InitTwice /\ [][Next]_vars

\* the scoring of ingestBatch alone, invoked twice
InitScore == InitWith(Lists(Catalogue, MaxBatch), Category, 2, UuidSpace)
NextScore == ScoreBatch
SpecScore == InitScore /\ [][NextScore]_vars

\* one POST /content/score request on a content record of any shape and age
InitContent ==
    InitWith({<<content @@ [content_id |-> 1]>> : content \in AnyContent}, Category, 1,
             UuidSpace)
NextContent == ScoreContent
SpecContent == InitContent /\ [][NextContent]_vars

\* a record of any statistics is scored and a block is built from it
InitBlock ==
    InitWith({<<content @@ [content_id |-> 1]>> : content \in MetricShapes}, Category, 1, {1})
NextBlock == ScoreContent \/ BuildBlock
SpecBlock == InitBlock /\ [][NextBlock]_vars

\* one ingestBatch call on a short list of raw inputs of any kind
InitIngest ==
    /\ RequestIdle({<<>>}, Category, 1, UuidSpace)
    /\ inputs \in UNION {[1 .. n -> RawInputs] : n \in 0 .. MaxInputs}
    /\ ingested = NoResult
    /\ YoutubeIdle
NextIngest == IngestBatch
SpecIngest == InitIngest /\ [][NextIngest]_vars

\* calls of extractYouTubeMetadata, overlapping or not, over a little more than a day
InitYoutube ==
    /\ RequestIdle({<<>>}, {"Tech"}, 1, UuidSpace)
    /\ IngestIdle
    /\ YoutubeIdle
NextYoutube == YtStart \/ YtFetchDone \/ YtTick
SpecYoutube == InitYoutube /\ [][NextYoutube]_vars

\* the scoring of a batch of videos
InitVideos == InitWith(Lists(VideoCatalogue, MaxItems), Category, 1, UuidSpace)
SpecVideos == InitVideos /\ [][NextScore]_vars

\* a request with up to MaxFill items: more than the sections can hold
InitFill ==
    InitWith(Runs(<<UploadVideo, ReportPdf, StarredGithub("code")>>, MaxFill), Category, 1, {1})
SpecFill == InitFill /\ [][Next]_vars

(***************************************************************************)
(* Properties                                                              *)
(***************************************************************************)
Composed == composeCalls > 0
Scored == scoreCalls > 0

SectionIdsOf(doc) == {doc.sections[i].section_id : i \in 1 .. Len(doc.sections)}
SectionOf(doc, sectionId) ==
    doc.sections[CHOOSE i \in 1 .. Len(doc.sections) : doc.sections[i].section_id = sectionId]
\* the places <<section index, block index>> of the blocks of a document
BlockPlaces(doc) ==
    {<<i, j>> \in (1 .. Len(doc.sections)) \X (1 .. 16) : j <= Len(doc.sections[i].blocks)}
BlockAt(doc, place) == doc.sections[place[1]].blocks[place[2]]
\* the places of the blocks built from content items
ContentPlaces(doc) == {q \in BlockPlaces(doc) : "built_from" \in DOMAIN BlockAt(doc, q)}
\* the places <<section, index>> of the items of an assignment
AssignedPlaces(assigned) ==
    {<<sec, i>> \in SectionId \X (1 .. 16) : i <= Len(assigned[sec])}
AssignedIds(assigned) == {assigned[q[1]][q[2]].content_id : q \in AssignedPlaces(assigned)}

\* C1: after assignContentToSections, and in the composed document, no content_id
\* is held by two sections or twice by one section (the input ids are distinct).
C1_NoSharedContent ==
    Composed =>
        /\ \A q1, q2 \in AssignedPlaces(assignments) :
               q1 # q2 => assignments[q1[1]][q1[2]].content_id
                          # assignments[q2[1]][q2[2]].content_id
        /\ \A q1, q2 \in ContentPlaces(portfolio) :
               q1 # q2 => BlockAt(portfolio, q1).built_from # BlockAt(portfolio, q2).built_from

\* an item that the hook and the work filter both accept sits in the hook section,
\* and the work section was filled from what was left
C1_Witness ==
    /\ Composed
    /\ \E i \in 1 .. Len(assignments["hook"]) :
           /\ HookFilter(assignments["hook"][i])
           /\ WorkFilter(assignments["hook"][i])
    /\ Len(assignments["work"]) > 0

C3_ActionIsOneCta ==
    Composed =>
        /\ Cardinality({i \in 1 .. Len(portfolio.sections) :
                            portfolio.sections[i].section_id = "action"}) = 1
        /\ Len(SectionOf(portfolio, "action").blocks) = 1
        /\ SectionOf(portfolio, "action").blocks[1].block_type = "cta"
        /\ "built_from" \notin DOMAIN SectionOf(portfolio, "action").blocks[1]
        /\ firstPass["action"] = <<>>
        /\ assignments["action"] = <<>>

\* hook, credibility and work are served and an item is still left over: the second
\* loop would hand it to the action section if it did not skip that section
C3_Witness ==
    /\ Composed
    /\ IdsOf(composedFrom) \ AssignedIds(assignments) # {}
    /\ \E sec \in {"hook", "work"} : firstPass[sec] = <<>> /\ assignments[sec] # <<>>

\* C4: within one composed document all block_id values (the content blocks of
\* every section and the generated CTA block) are pairwise distinct.
C4_BlockIdsDistinct ==
    Composed =>
        \A q1, q2 \in BlockPlaces(portfolio) :
            q1 # q2 => BlockAt(portfolio, q1).block_id # BlockAt(portfolio, q2).block_id

\* a document with a content block and the CTA block whose generateBlockId() values
\* differ: the ids can be distinct
C4_DistinctIdsReached ==
    /\ Composed
    /\ Cardinality(BlockPlaces(portfolio)) >= 2
    /\ C4_BlockIdsDistinct

\* the document with its generated identifiers and its readings of now() masked
MaskBlock(block) ==
    LET payload == IF block.block_type = "scroll_container"
                   THEN [children |-> [i \in 1 .. Len(block.content.children) |->
                                          [block.content.children[i]
                                              EXCEPT !.block_id = <<"b", 0>>]]]
                   ELSE block.content
    IN  [block EXCEPT !.block_id = <<"b", 0>>, !.content = payload]
MaskSection(section) ==
    [section EXCEPT !.blocks = [j \in 1 .. Len(section.blocks) |-> MaskBlock(section.blocks[j])]]
Mask(doc) ==
    [doc EXCEPT !.portfolio_id = <<"p", 0>>,
                !.meta.created_at = 0,
                !.meta.updated_at = 0,
                !.navigation.deep_links = buildNavigation(<<"p", 0>>, doc.sections).deep_links,
                !.sections = [i \in 1 .. Len(doc.sections) |-> MaskSection(doc.sections[i])]]

\* C5: two composePortfolio invocations with equal scoredContent lists and equal
\* options return documents that are equal once portfolio_id, the block_ids, the
\* deep-link strings and the now() timestamps are masked.
C5_ComposeDeterministic ==
    (composeCalls >= 2 /\ composedFrom = prevComposedFrom) =>
        Mask(portfolio) = Mask(prevPortfolio)

\* two invocations on the same list, with a block in every content section the list
\* can fill, whose documents differ before masking
C5_Witness ==
    /\ composeCalls >= 2
    /\ composedFrom = prevComposedFrom
    /\ Len(composedFrom) = MaxItems
    /\ "process" \in SectionIdsOf(portfolio)
    /\ portfolio # prevPortfolio
    /\ portfolio.meta.created_at # prevPortfolio.meta.created_at

\* C6: two scoreContent invocations with equal content and equal category return
\* equal sub-scores and an equal final_score, whenever each of them runs.
C6_ScoreIndependentOfTime ==
    scoreCalls >= 2 =>
        \A i \in 1 .. Len(scored), j \in 1 .. Len(prevScored) :
            scored[i].content_id = prevScored[j].content_id =>
                /\ scored[i].scores = prevScored[j].scores
                /\ scored[i].final_score = prevScored[j].final_score

\* the fields of a scored item that scoreContent copies from its input
ContentFields(item) == [f \in DOMAIN item \ {"scores", "final_score"} |-> item[f]]

\* C7: the list returned by scoreContentBatch is a permutation of the scored inputs,
\* sorted by final_score in non-increasing order, and items of equal final_score
\* keep the relative order they have in the input list.
C7_BatchSortedStable ==
    Scored =>
        /\ Len(scored) = Len(contents)
        /\ {scored[i].content_id : i \in 1 .. Len(scored)} = 1 .. Len(contents)
        /\ \A i \in 1 .. Len(scored) :
               /\ ContentFields(scored[i]) = contents[scored[i].content_id]
               /\ \E now \in Times :
                      scored[i] = scoreContent(contents[scored[i].content_id], category, now)
        /\ \A i, j \in 1 .. Len(scored) :
               i < j =>
                   /\ scored[i].final_score >= scored[j].final_score
                   /\ scored[i].final_score = scored[j].final_score
                          => scored[i].content_id < scored[j].content_id

\* a batch in which the sort moved an item forward and two items tie
C7_Witness ==
    /\ Scored
    /\ Len(scored) = MaxBatch
    /\ \E i \in 1 .. Len(scored) : scored[i].content_id > i
    /\ \E i, j \in 1 .. Len(scored) :
           i < j /\ scored[i].final_score = scored[j].final_score

ItemOf(list, contentId) == list[CHOOSE i \in 1 .. Len(list) : list[i].content_id = contentId]

SubScores == {"relevance", "quality", "credibility", "engagement", "freshness"}

\* C11: for every content record and category, each of the five sub-scores that
\* scoreContent computes lies in [0,1] and so does final_score (0 .. 100 in
\* hundredths).
C11_ScoresInUnitInterval ==
    Scored =>
        \A i \in 1 .. Len(scored) :
            /\ DOMAIN scored[i].scores = SubScores
            /\ \A k \in SubScores : scored[i].scores[k] \in 0 .. 100
            /\ scored[i].final_score \in 0 .. 100

\* a record with every optional field present: the bonuses of scoreQuality add up
\* to more than 1.0 and the result is clamped to 1.0, like the relevance
C11_Witness ==
    /\ Scored
    /\ contents[1].type = "video"
    /\ contents[1].thumbnail_url
    /\ contents[1].description_length > 50
    /\ contents[1].width >= 3840
    /\ contents[1].duration_seconds > 0
    /\ scored[1].scores.quality = 100
    /\ scored[1].scores.relevance = 100

\* C12: for each of the 8 categories the five weights of CATEGORY_WEIGHTS sum to
\* exactly 1.0 (100 in hundredths).
C12_WeightsSumToOne ==
    /\ category \in DOMAIN CATEGORY_WEIGHTS
    /\ Cardinality(Category) = 8
    /\ DOMAIN CATEGORY_WEIGHTS = Category
    /\ \A c \in Category :
           /\ DOMAIN CATEGORY_WEIGHTS[c] = SubScores
           /\ CATEGORY_WEIGHTS[c].relevance + CATEGORY_WEIGHTS[c].quality
              + CATEGORY_WEIGHTS[c].credibility + CATEGORY_WEIGHTS[c].engagement
              + CATEGORY_WEIGHTS[c].freshness = 100

\* a Tech record scored with all five sub-scores different from 0: every weight of
\* the vector takes part in a final_score that lies between the least and the
\* greatest sub-score
C12_Witness ==
    /\ Scored
    /\ category = "Tech"
    /\ \A k \in SubScores : scored[1].scores[k] > 0
    /\ \E k \in SubScores : scored[1].scores[k] < scored[1].final_score
    /\ \E k \in SubScores : scored[1].scores[k] > scored[1].final_score

\* the step function of the claim, on an age in whole days
FreshnessOfAge(age) ==
    IF age < 30 THEN 100
    ELSE IF age >= 30 /\ age < 90 THEN 80
    ELSE IF age >= 90 /\ age < 365 THEN 60
    ELSE IF age >= 365 /\ age < 730 THEN 40
    ELSE 20

C14_CredibilityOfStarredRepoIsOne ==
    (Scored /\ category = "Tech" /\ contents[1].source = "github" /\ contents[1].stars = 150)
        => scored[1].scores.credibility = 100

\* C14, amended: an item from github with 150 stars passes the star tiers at 10 and
\* at 100 but not the one at 1000: its credibility is 0.3 + 0.2 + 0.1 + 0.1 = 0.7 (0.85
\* for a pdf, 0.6 for an external link), in Tech as in every category.
C14_CredibilityOfStarredRepo ==
    (Scored /\ contents[1].source = "github" /\ contents[1].stars = 150)
        => scored[1].scores.credibility
               = 70 + (IF contents[1].type = "pdf" THEN 15 ELSE 0)
                    - (IF contents[1].type = "external_link" THEN 10 ELSE 0)

\* the repository with 150 stars scored in category Tech
C14_Witness ==
    /\ Scored
    /\ category = "Tech"
    /\ contents[1].source = "github"
    /\ contents[1].type = "code"
    /\ contents[1].stars = 150
    /\ scored[1].scores.credibility = 70

C17_EmptyListRejected ==
    (Composed /\ composedFrom = <<>>) => portfolio = NoDocument

\* composePortfolio([]) returned a document with sections
C17_DocumentFromEmptyList ==
    /\ Composed
    /\ composedFrom = <<>>
    /\ portfolio # NoDocument
    /\ Len(portfolio.sections) > 0

\* the scored batch is two videos scored for Influencers
TwoInfluencerVideos ==
    /\ Scored
    /\ category = "Influencers"
    /\ Len(scored) = 2
    /\ \A i \in 1 .. 2 : scored[i].type = "video"

ContentSections == <<"hook", "credibility", "work", "process">>
\* the ids of the items held, in the end, by the sections before ContentSections[k]
TakenBefore(k) == UNION {IdsOf(assignments[ContentSections[j]]) : j \in 1 .. k - 1}
\* the items of the composed list that fit ContentSections[k] and that no earlier
\* section holds, in input order
Pool(k) ==
    SelectSeq(composedFrom,
              LAMBDA c : /\ contentFilter(ContentSections[k], c, category)
                         /\ c.content_id \notin TakenBefore(k))

RequiredContentSections == {"hook", "credibility", "work"}

\* C19: after the assignment each of hook, credibility and work holds at least
\* minBlocks (1) items, or no item of the input list is left unassigned.
C19_RequiredSectionsBackfilled ==
    Composed =>
        \A sec \in RequiredContentSections :
            /\ ConfigOf(sec).minBlocks = 1
            /\ \/ Len(assignments[sec]) >= ConfigOf(sec).minBlocks
               \/ IdsOf(composedFrom) \subseteq AssignedIds(assignments)

\* the second loop gave the hook section an item its filter rejects, and the work
\* section stays empty because every item of the list is assigned
C19_Witness ==
    /\ Composed
    /\ firstPass["hook"] = <<>>
    /\ Len(assignments["hook"]) = 1
    /\ ~HookFilter(assignments["hook"][1])
    /\ assignments["work"] = <<>>
    /\ composedFrom # <<>>
    /\ IdsOf(composedFrom) \subseteq AssignedIds(assignments)

\* the number of content blocks of a document
ContentBlockCount(doc) == Cardinality(ContentPlaces(doc))

PlaceOf(contentId) ==
    CHOOSE i \in 1 .. Len(composedFrom) : composedFrom[i].content_id = contentId
\* whether the items of a list keep the relative order of the composed list
InInputOrder(list) ==
    \A i, j \in 1 .. Len(list) :
        i < j => PlaceOf(list[i].content_id) < PlaceOf(list[j].content_id)

Overridden(content) ==
    \/ content.type \in {"pdf", "text", "external_link"}
    \/ content.source = "github" /\ content.is_profile
OverrideType(content) ==
    IF content.type \in {"pdf", "text"} THEN "expandable_text" ELSE "external_link"

MappedOrFirst(type, sectionId) ==
    LET preferred == ConfigOf(sectionId).preferredTypes
        mapped == IF type = "code" THEN "expandable_text" ELSE "media"
    IN  IF \E i \in 1 .. Len(preferred) : preferred[i] = mapped THEN mapped
        ELSE preferred[1]

ExtractedLabels(content) ==
    (IF content.view_count \notin {Undefined, 0} THEN <<"Views">> ELSE <<>>)
    \o (IF content.is_profile /\ content.followers # Undefined THEN <<"Followers">> ELSE <<>>)
    \o (IF content.is_profile /\ content.public_repos # Undefined THEN <<"Repos">> ELSE <<>>)
    \o (IF content.stars # Undefined THEN <<"Stars">> ELSE <<>>)
    \o (IF content.forks # Undefined THEN <<"Forks">> ELSE <<>>)

BuiltMetric == built # NoBlock /\ built.block_type = "metric"

\* C28: a metric block built by buildBlock carries between 1 and 4 metrics; the
\* Quality Score metric (value round(final_score * 100), unit "%") is present only
\* when no views, followers, repos, stars or forks metric was extracted, and is then
\* the only metric; layout is horizontal when at most 2 metrics were extracted and
\* grid otherwise.
C28_MetricBlock ==
    BuiltMetric =>
        LET metrics == built.content.metrics
            labels == ExtractedLabels(scored[1])
        IN  /\ Len(metrics) \in 1 .. 4
            /\ (\E i \in 1 .. Len(metrics) : metrics[i].label = "Quality Score")
                   <=> labels = <<>>
            /\ labels = <<>> =>
                   metrics = << [label |-> "Quality Score",
                                 value |-> <<scored[1].final_score * 10, "">>,
                                 unit |-> Lit("%")] >>
            /\ labels # <<>> =>
                   [i \in 1 .. Len(metrics) |-> metrics[i].label]
                       = SubSeq(labels, 1, Min(Len(labels), 4))
            /\ built.content.layout = IF Len(labels) <= 2 THEN "horizontal" ELSE "grid"

\* a metric block from a record offering all five statistics: four are carried,
\* in a grid
C28_Witness ==
    /\ BuiltMetric
    /\ Len(ExtractedLabels(scored[1])) = 5
    /\ Len(built.content.metrics) = 4
    /\ built.content.layout = "grid"

Ingested == ingested # NoResult

\* the places of the successful results, in input order
SuccessPlaces == {i \in 1 .. Len(ingested.results) : ingested.results[i].success}
\* the number of successful results before place i, plus one
RankOf(i) == Cardinality({j \in SuccessPlaces : j < i}) + 1

\* C29: ingestBatch returns, whichever handlers fail, total = number of inputs,
\* successful + failed = total, one result per input in input order (a failure as
\* success = false with an error), normalized_content = the successfully ingested
\* records in input order, and scored_content = a permutation of normalized_content.
C29_BatchIsolatesFailures ==
    Ingested =>
        /\ ingested.total = Len(inputs)
        /\ ingested.successful + ingested.failed = ingested.total
        /\ ingested.successful = Cardinality(SuccessPlaces)
        /\ Len(ingested.results) = Len(inputs)
        /\ \A i \in 1 .. Len(inputs) :
               LET result == ingested.results[i]
               IN  /\ result.success =>
                          /\ inputs[i].type \in {"url", "image", "video", "pdf", "text"}
                          /\ inputs[i].given
                          /\ result.content_id = i
                          /\ result.normalized.content_id = i
                          /\ inputs[i].type # "url" => result.normalized.type = inputs[i].type
                          /\ ingested.normalized_content[RankOf(i)] = result.normalized
                   /\ ~result.success =>
                          /\ result.error # ""
                          /\ "normalized" \notin DOMAIN result
                   /\ (~inputs[i].given \/ inputs[i].type = "audio") => ~result.success
        /\ Len(ingested.normalized_content) = ingested.successful
        /\ Len(ingested.scored_content) = ingested.successful
        /\ \A i \in 1 .. ingested.successful :
               Cardinality({j \in 1 .. ingested.successful :
                               ContentFields(ingested.scored_content[j])
                                   = ingested.normalized_content[i]}) = 1

\* a batch of three inputs: the first handler throws, the other two inputs are
\* ingested and the sort exchanges them
C29_Witness ==
    /\ Ingested
    /\ Len(inputs) = 3
    /\ inputs[1].given /\ inputs[1].type = "url"
    /\ ~ingested.results[1].success
    /\ ingested.results[1].error = "handler error"
    /\ ingested.successful = 2
    /\ ingested.failed = 1
    /\ [i \in 1 .. 2 |-> ingested.normalized_content[i].content_id] = <<2, 3>>
    /\ [i \in 1 .. 2 |-> ingested.scored_content[i].content_id] = <<3, 2>>

\* the calls that fetched for the same video id and completed before call b started
FetchesBefore(b) ==
    {a \in 1 .. Len(ytCalls) :
        /\ ytCalls[a].videoId = ytCalls[b].videoId
        /\ ytCalls[a].fetched
        /\ ytCalls[a].pc = "done"
        /\ ytCalls[a].doneEvent < ytCalls[b].startedEvent}
\* the one of them that completed last
LatestFetchBefore(b) ==
    CHOOSE a \in FetchesBefore(b) :
        \A other \in FetchesBefore(b) : ytCalls[other].doneEvent <= ytCalls[a].doneEvent

\* whether another call for the same video id had sent its request and not yet
\* completed when call a completed
InFlightAtCompletion(a) ==
    \E c \in 1 .. Len(ytCalls) :
        /\ c # a
        /\ ytCalls[c].videoId = ytCalls[a].videoId
        /\ ytCalls[c].fetched
        /\ ytCalls[c].startedEvent < ytCalls[a].doneEvent
        /\ ytCalls[c].pc = "done" => ytCalls[c].doneEvent > ytCalls[a].doneEvent

\* C30 (as stated): once a call for a video id has fetched and completed, every
\* later call for that id that starts less than 24 hours after the completion
\* fetches nothing and returns the metadata that call stored.
C30_FreshCallsReturnStored ==
    \A b \in 1 .. Len(ytCalls) :
        \A a \in FetchesBefore(b) :
            ytCalls[b].startedAt < ytCalls[a].doneAt + CACHE_TTL =>
                /\ ~ytCalls[b].fetched
                /\ ytCalls[b].data = ytCalls[a].data

\* C30 (amended): a call for a video id fetches nothing and returns the stored
\* metadata exactly when a fetch for that id has completed before it starts and the
\* latest such completion is less than 24 hours old; the metadata returned is that
\* of the latest completed fetch, which is the one of the first completed call
\* unless another call for the id was in flight when that call completed.
\* Otherwise the call fetches, and on completion its result is the entry of the
\* id, expiring 24 hours later.
C30_FreshCallsReturnLatest ==
    /\ \A b \in 1 .. Len(ytCalls) :
           IF /\ FetchesBefore(b) # {}
              /\ ytCalls[b].startedAt < ytCalls[LatestFetchBefore(b)].doneAt + CACHE_TTL
           THEN /\ ~ytCalls[b].fetched
                /\ ytCalls[b].data = ytCalls[LatestFetchBefore(b)].data
           ELSE ytCalls[b].fetched
    /\ \A b \in 1 .. Len(ytCalls) :
           \A a \in FetchesBefore(b) :
               (/\ ytCalls[b].startedAt < ytCalls[a].doneAt + CACHE_TTL
                /\ ~InFlightAtCompletion(a)) =>
                   /\ ~ytCalls[b].fetched
                   /\ ytCalls[b].data = ytCalls[a].data
    /\ \A cached \in ytCache :
           \E a \in 1 .. Len(ytCalls) :
               /\ ytCalls[a].fetched /\ ytCalls[a].pc = "done"
               /\ cached = [videoId |-> ytCalls[a].videoId, data |-> ytCalls[a].data,
                            expires |-> ytCalls[a].doneAt + CACHE_TTL]
               /\ \A other \in 1 .. Len(ytCalls) :
                      (ytCalls[other].videoId = cached.videoId /\ ytCalls[other].fetched
                           /\ ytCalls[other].pc = "done")
                          => ytCalls[other].doneEvent <= ytCalls[a].doneEvent
    /\ \A c1, c2 \in ytCache : c1.videoId = c2.videoId => c1 = c2

\* a fetch completed at hour 1; a call 23 hours later is served from the cache and
\* a call 24 hours later fetches again and replaces the entry
C30_Witness ==
    /\ Len(ytCalls) = 3
    /\ \A k \in 1 .. 3 : ytCalls[k].videoId = "v1" /\ ytCalls[k].pc = "done"
    /\ ytCalls[1].fetched /\ ytCalls[1].doneAt = 1
    /\ ytCalls[2].startedAt = 24 /\ ~ytCalls[2].fetched
    /\ ytCalls[2].data = ytCalls[1].data
    /\ ytCalls[3].startedAt = 25 /\ ytCalls[3].fetched
    /\ ytCalls[3].data # ytCalls[1].data
    /\ \E cached \in ytCache : cached.data = ytCalls[3].data /\ cached.expires = 25 + CACHE_TTL

====
